---- MODULE Spec2Model ----
(***************************************************************************)
(* Model of the raw cgroup-fs backend of docker (pkg/cgroups/fs): Apply,   *)
(* data.path, data.join, data.Cleanup, writeFile, cpuGroup.Set and         *)
(* perfEventGroup.Set, over an explicit filesystem (a set of directories   *)
(* and a set of files) in which every filesystem call may fail.            *)
(*                                                                         *)
(* A path is a sequence of components, a file's content a sequence of      *)
(* one-character strings.  An error is a record [kind, op, path, errno].   *)
(*                                                                         *)
(* Spec is one Apply and the Cleanups of its handle on a host whose mount  *)
(* table changes; SpecPair is two calls whose steps interleave; SpecEngine *)
(* is package engine's handler registries: Register, Engine.Register, New  *)
(* and Engine.Job.                                                         *)
(***************************************************************************)
EXTENDS Integers, Sequences, FiniteSets, TLC

VARIABLES
    dirs,       \* the directories that exist (set of paths)
    files,      \* the files that exist (set of [dir, file, data])
    mounted,    \* subsystems listed in the init process's cgroup table
    pc,         \* per call: "idle", "apply", "applied", "failed"
    d,          \* per call: the *data built by Apply (root, cgroup, c, pid)
    idx,        \* per call: position of Apply's loop in `subsystems`
    handle,     \* per call: the ActiveCgroup Apply returned: "nil", or "d" (its data)
    err,        \* per call: the error Apply returned
    log,        \* per call: the filesystem calls of Apply, in order
    clog,       \* per call: the filesystem calls of the last Cleanup, in order
    dirs0,      \* per call: the directories that existed when Apply began
    cleanups,   \* per call: number of Cleanup calls made on the handle
    cleanupRet, \* per call: what the last Cleanup returned
    globalHandlers, \* package engine: the global handler registry
    engines,    \* per engine: the Engine that New returned, if any
    ret,        \* package engine: the last call and what it returned
    firstReg    \* per registry and name: the handler of the first Register call

\* the variables of the cgroup backend other than the directories
cgVars == <<files, mounted, pc, d, idx, handle, err, log, clog, dirs0, cleanups,
            cleanupRet>>
\* the variables of package engine
engVars == <<globalHandlers, engines, ret, firstReg>>

vars == <<dirs, files, mounted, pc, d, idx, handle, err, log, clog, dirs0,
          cleanups, cleanupRet, globalHandlers, engines, ret, firstReg>>

-----------------------------------------------------------------------------
(* Bounds of the model *)

\* Cleanup calls made on one handle
MaxCleanups == 2
\* os.RemoveAll calls that may fail within one Cleanup
MaxRmFaults == 1
\* subsystems that may be missing from the mount table at any one time
MaxUnmounted == 1

Calls == {1, 2}
Names == {"c1"}
Parents == {"", "p"}
Pids == {4242}
ShareValues == {0, 512}

-----------------------------------------------------------------------------
(* Errors *)

Nil == [kind |-> "nil", op |-> "", path |-> <<>>, errno |-> ""]
ErrNotFound == [kind |-> "ErrNotFound", op |-> "", path |-> <<>>, errno |-> ""]
PathError(op, path, errno) ==
    [kind |-> "PathError", op |-> op, path |-> path, errno |-> errno]
\* fmt.Errorf("cgroups fs not found")
ErrNoCgroupFs == [kind |-> "cgroups fs not found", op |-> "", path |-> <<>>, errno |-> ""]
IsExist(e) == e.kind = "PathError" /\ e.errno = "EEXIST"

-----------------------------------------------------------------------------
(* strconv *)

DigitChar == <<"0", "1", "2", "3", "4", "5", "6", "7", "8", "9">>

RECURSIVE FormatUint(_)
FormatUint(n) ==
    IF n < 10 THEN <<DigitChar[n + 1]>>
    ELSE Append(FormatUint(n \div 10), DigitChar[(n % 10) + 1])

\* faulty variant: the digits are emitted least significant first
FormatInt_Reversed(i) ==
    LET u == FormatUint(IF i < 0 THEN -i ELSE i)
        r == [k \in 1..Len(u) |-> u[Len(u) + 1 - k]]
    IN  IF i < 0 THEN <<"-">> \o r ELSE r

\* strconv.FormatInt(i, 10)
FormatInt(i) == IF i < 0 THEN <<"-">> \o FormatUint(-i) ELSE FormatUint(i)
\* strconv.Itoa(i)
Itoa(i) == FormatInt(i)

-----------------------------------------------------------------------------
(* Paths and the filesystem *)

IsPrefix(p, q) == Len(p) <= Len(q) /\ SubSeq(q, 1, Len(p)) = p
Prefixes(p) == {SubSeq(p, 1, n) : n \in 1..Len(p)}
\* filepath.Dir
Dir(p) == SubSeq(p, 1, Len(p) - 1)
\* filepath.Join of a file name onto a directory
JoinFile(dir, file) == Append(dir, file)

Entry(op, path, file, data, ok) ==
    [op |-> op, path |-> path, file |-> file, data |-> data, ok |-> ok]

\* os.MkdirAll(path, 0755).  flt is the fault the environment injects into the
\* enclosing Set: "mkdir" makes the call fail, "mkdirExist" makes it fail with
\* an error os.IsExist accepts (the path exists and is not a directory).
MkdirAll(fs, path, flt) ==
    IF path \in fs.dirs
    THEN [fs |-> [fs EXCEPT !.log = Append(@, Entry("mkdir", path, "", <<>>, TRUE))],
          err |-> Nil]
    ELSE IF flt \in {"mkdir", "mkdirExist"}
    THEN [fs |-> [fs EXCEPT !.log = Append(@, Entry("mkdir", path, "", <<>>, FALSE))],
          err |-> PathError("mkdir", path, IF flt = "mkdir" THEN "EACCES" ELSE "EEXIST")]
    ELSE [fs |-> [fs EXCEPT !.dirs = @ \cup Prefixes(path),
                            !.log = Append(@, Entry("mkdir", path, "", <<>>, TRUE))],
          err |-> Nil]

\* ioutil.WriteFile(filepath.Join(dir, file), []byte(data), 0700): creates or
\* truncates the file; fails when the directory is missing or on fault.
writeFile(fs, dir, file, data, flt) ==
    IF dir \notin fs.dirs \/ flt = file
    THEN [fs |-> [fs EXCEPT !.log = Append(@, Entry("write", dir, file, data, FALSE))],
          err |-> PathError("open", JoinFile(dir, file),
                            IF dir \notin fs.dirs THEN "ENOENT" ELSE "EACCES")]
    ELSE [fs |-> [fs EXCEPT
                    !.files = {f \in @ : ~(f.dir = dir /\ f.file = file)}
                              \cup {[dir |-> dir, file |-> file, data |-> data]},
                    !.log = Append(@, Entry("write", dir, file, data, TRUE))],
          err |-> Nil]

\* os.RemoveAll(path): removes path and everything below it; a missing path
\* is no error.  fail: the environment makes the removal fail (EBUSY).
RemoveAll(fs, path, fail) ==
    IF fail /\ path \in fs.dirs
    THEN [fs |-> [fs EXCEPT !.log = Append(@, Entry("remove", path, "", <<>>, FALSE))],
          err |-> PathError("unlinkat", path, "EBUSY")]
    ELSE [fs |-> [fs EXCEPT
                    !.dirs = {q \in @ : ~IsPrefix(path, q)},
                    !.files = {f \in @ : ~IsPrefix(path, f.dir)},
                    !.log = Append(@, Entry("remove", path, "", <<>>, TRUE))],
          err |-> Nil]

-----------------------------------------------------------------------------
(* The resource specification (cgroups.Cgroup) and the host *)

\* faulty variant: cpuset is applied before cpu
subsystems_CpusetFirst ==
    <<"devices", "memory", "cpuset", "cpu", "cpuacct", "blkio", "perf_event", "freezer">>

\* the fixed order of Apply's loop
subsystems ==
    <<"devices", "memory", "cpu", "cpuset", "cpuacct", "blkio", "perf_event", "freezer">>
Subsystems == {subsystems[i] : i \in 1..Len(subsystems)}

\* faulty variant: a subsystem of Apply's list is missing from Cleanup's
cleanupOrder_NoFreezer ==
    <<"memory", "devices", "cpu", "cpuset", "cpuacct", "blkio", "perf_event">>

\* the order in which Cleanup removes
cleanupOrder ==
    <<"memory", "devices", "cpu", "cpuset", "cpuacct", "blkio", "perf_event", "freezer">>

\* the limits of a spec other than CpuShares: none set, or all set
NoLimits ==
    [memoryLimitBytes |-> <<>>, memorySwapLimitBytes |-> <<>>,
     cpusetCpus |-> <<>>, cpusetMems |-> <<>>, blkioWeight |-> <<>>,
     deviceRules |-> <<>>, freezeState |-> "THAWED"]
AllLimits ==
    [memoryLimitBytes |-> <<134217728>>, memorySwapLimitBytes |-> <<268435456>>,
     cpusetCpus |-> <<"0-3,7">>, cpusetMems |-> <<"0">>, blkioWeight |-> <<500>>,
     deviceRules |-> <<[allow |-> TRUE, rule |-> "c 1:3 rwm"],
                      [allow |-> FALSE, rule |-> "b 8:0 w"]>>,
     freezeState |-> "FROZEN"]

CgroupOf(name, parent, shares, lim) ==
    [Name |-> name, Parent |-> parent, CpuShares |-> shares,
     memoryLimitBytes |-> lim.memoryLimitBytes,
     memorySwapLimitBytes |-> lim.memorySwapLimitBytes,
     cpusetCpus |-> lim.cpusetCpus, cpusetMems |-> lim.cpusetMems,
     blkioWeight |-> lim.blkioWeight, deviceRules |-> lim.deviceRules,
     freezeState |-> lim.freezeState]
Cgroups ==
    {CgroupOf(n, p, s, l) : n \in Names, p \in Parents, s \in ShareValues,
                            l \in {NoLimits, AllLimits}}

\* the mount root of the host and a directory that is not on disk
CgroupRoot == <<"cgroup">>
\* what cgroups.FindCgroupMountpoint("cpu") may return
CpuMountpoints ==
    {[path |-> Append(CgroupRoot, "cpu"), err |-> Nil],
     [path |-> <<"mnt", "cpu">>, err |-> Nil],
     [path |-> <<>>, err |-> ErrNotFound]}

\* the init process's cgroup within each hierarchy ("/" except for memory)
InitDirOf(subsystem) == IF subsystem = "memory" THEN <<"init">> ELSE <<>>

\* cgroups.GetInitCgroupDir(subsystem)
GetInitCgroupDir(subsystem) ==
    IF subsystem \in mounted
    THEN [path |-> InitDirOf(subsystem), err |-> Nil]
    ELSE [path |-> <<>>, err |-> ErrNotFound]

\* the subsystems whose presence in the mount table varies
MountVaries == {"memory", "cpu", "perf_event"}
\* the mount tables the host may have
MountTables ==
    {Subsystems \ u : u \in {v \in SUBSET MountVaries : Cardinality(v) <= MaxUnmounted}}
\* the subsystems whose directory removal may fail: the first, a middle and
\* the last one of Cleanup's list
RmVaries == {"memory", "cpu", "freezer"}

\* the directories of the hierarchies themselves
Skeleton ==
    {CgroupRoot} \cup
    UNION {Prefixes(CgroupRoot \o <<s>> \o InitDirOf(s)) : s \in Subsystems}

-----------------------------------------------------------------------------
(* data.path, data.join, writeFile and the subsystems *)

\* faulty variant: the cgroup name is left out of the path
path_NoCgroup(raw, subsystem) ==
    LET init == GetInitCgroupDir(subsystem) IN
    IF init.err # Nil
    THEN [path |-> <<>>, err |-> init.err]
    ELSE [path |-> raw.root \o <<subsystem>> \o init.path, err |-> Nil]

path(raw, subsystem) ==
    LET init == GetInitCgroupDir(subsystem) IN
    IF init.err # Nil
    THEN [path |-> <<>>, err |-> init.err]
    ELSE [path |-> raw.root \o <<subsystem>> \o init.path \o raw.cgroup, err |-> Nil]

Lookup(fs, subsystem, ok) ==
    [fs EXCEPT !.log = Append(@, Entry("lookup", <<subsystem>>, "", <<>>, ok))]

\* faulty variant: a directory that exists already makes the join fail
join_FailIfExists(fs, raw, subsystem, flt) ==
    LET p == path(raw, subsystem) IN
    IF p.err # Nil
    THEN [fs |-> Lookup(fs, subsystem, FALSE), path |-> <<>>, err |-> p.err]
    ELSE IF p.path \in fs.dirs
    THEN [fs |-> [Lookup(fs, subsystem, TRUE) EXCEPT
                    !.log = Append(@, Entry("mkdir", p.path, "", <<>>, FALSE))],
          path |-> <<>>, err |-> PathError("mkdir", p.path, "EEXIST")]
    ELSE
    LET m == MkdirAll(Lookup(fs, subsystem, TRUE), p.path, flt) IN
    IF m.err # Nil
    THEN [fs |-> m.fs, path |-> <<>>, err |-> m.err]
    ELSE
    LET w == writeFile(m.fs, p.path, "cgroup.procs", Itoa(raw.pid), flt) IN
    IF w.err # Nil
    THEN [fs |-> w.fs, path |-> <<>>, err |-> w.err]
    ELSE [fs |-> w.fs, path |-> p.path, err |-> Nil]

join(fs, raw, subsystem, flt) ==
    LET p == path(raw, subsystem) IN
    IF p.err # Nil
    THEN [fs |-> Lookup(fs, subsystem, FALSE), path |-> <<>>, err |-> p.err]
    ELSE
    LET m == MkdirAll(Lookup(fs, subsystem, TRUE), p.path, flt) IN
    IF m.err # Nil /\ ~IsExist(m.err)
    THEN [fs |-> m.fs, path |-> <<>>, err |-> m.err]
    ELSE
    LET w == writeFile(m.fs, p.path, "cgroup.procs", Itoa(raw.pid), flt) IN
    IF w.err # Nil
    THEN [fs |-> w.fs, path |-> <<>>, err |-> w.err]
    ELSE [fs |-> w.fs, path |-> p.path, err |-> Nil]

\* faulty variant: the not-found error is returned like any other
perfEventGroup_Set_NoTolerance(fs, dd, flt) ==
    LET j == join(fs, dd, "perf_event", flt) IN [fs |-> j.fs, err |-> j.err]

\* faulty variant: every error of the join is dropped
perfEventGroup_Set_SwallowAll(fs, dd, flt) ==
    LET j == join(fs, dd, "perf_event", flt) IN [fs |-> j.fs, err |-> Nil]

perfEventGroup_Set(fs, dd, flt) ==
    LET j == join(fs, dd, "perf_event", flt) IN
    IF j.err # Nil /\ j.err # ErrNotFound
    THEN [fs |-> j.fs, err |-> j.err]
    ELSE [fs |-> j.fs, err |-> Nil]

\* faulty variant: the cpu group is joined only when shares are set
cpuGroup_Set_JoinIfShares(fs, dd, flt) ==
    IF dd.c.CpuShares # 0
    THEN LET j == join(fs, dd, "cpu", flt) IN
         IF j.err # Nil
         THEN [fs |-> j.fs, err |-> j.err]
         ELSE LET w == writeFile(j.fs, j.path, "cpu.shares",
                                 FormatInt(dd.c.CpuShares), flt)
              IN  [fs |-> w.fs, err |-> w.err]
    ELSE [fs |-> fs, err |-> Nil]

\* faulty variant: cpu.shares is written before the group is joined
cpuGroup_Set_SharesFirst(fs, dd, flt) ==
    LET p == path(dd, "cpu")
        w == IF dd.c.CpuShares # 0 /\ p.err = Nil
             THEN writeFile(fs, p.path, "cpu.shares", FormatInt(dd.c.CpuShares), flt)
             ELSE [fs |-> fs, err |-> Nil]
        j == join(w.fs, dd, "cpu", flt)
    IN  IF j.err # Nil THEN [fs |-> j.fs, err |-> j.err]
        ELSE [fs |-> j.fs, err |-> w.err]

cpuGroup_Set(fs, dd, flt) ==
    LET j == join(fs, dd, "cpu", flt) IN
    IF j.err # Nil
    THEN [fs |-> j.fs, err |-> j.err]
    ELSE IF dd.c.CpuShares # 0
    THEN LET w == writeFile(j.fs, j.path, "cpu.shares", FormatInt(dd.c.CpuShares), flt)
         IN  [fs |-> w.fs, err |-> w.err]
    ELSE [fs |-> j.fs, err |-> Nil]

\* writes a sequence of <<file, data>> in order, stopping at the first error
RECURSIVE WriteAll(_, _, _, _)
WriteAll(fs, dir, writes, flt) ==
    IF writes = <<>>
    THEN [fs |-> fs, err |-> Nil]
    ELSE LET w == writeFile(fs, dir, writes[1][1], writes[1][2], flt) IN
         IF w.err # Nil THEN [fs |-> w.fs, err |-> w.err]
         ELSE WriteAll(w.fs, dir, Tail(writes), flt)

\* a subsystem that joins and then writes its configuration files
JoinAndWrite(fs, dd, subsystem, writes, flt) ==
    LET j == join(fs, dd, subsystem, flt) IN
    IF j.err # Nil
    THEN [fs |-> j.fs, err |-> j.err]
    ELSE WriteAll(j.fs, j.path, writes, flt)

Opt(file, v) == IF v = <<>> THEN <<>> ELSE <<<<file, <<v[1]>>>>>>
OptInt(file, v) == IF v = <<>> THEN <<>> ELSE <<<<file, FormatInt(v[1])>>>>

devicesGroup_Set(fs, dd, flt) ==
    JoinAndWrite(fs, dd, "devices",
        <<<<"devices.deny", <<"a">>>>>> \o
        [i \in 1..Len(dd.c.deviceRules) |->
            <<IF dd.c.deviceRules[i].allow THEN "devices.allow" ELSE "devices.deny",
              <<dd.c.deviceRules[i].rule>>>>],
        flt)

memoryGroup_Set(fs, dd, flt) ==
    JoinAndWrite(fs, dd, "memory",
        OptInt("memory.limit_in_bytes", dd.c.memoryLimitBytes) \o
        OptInt("memory.memsw.limit_in_bytes", dd.c.memorySwapLimitBytes),
        flt)

cpusetGroup_Set(fs, dd, flt) ==
    JoinAndWrite(fs, dd, "cpuset",
        Opt("cpuset.cpus", dd.c.cpusetCpus) \o Opt("cpuset.mems", dd.c.cpusetMems),
        flt)

cpuacctGroup_Set(fs, dd, flt) == JoinAndWrite(fs, dd, "cpuacct", <<>>, flt)

blkioGroup_Set(fs, dd, flt) ==
    JoinAndWrite(fs, dd, "blkio", OptInt("blkio.weight", dd.c.blkioWeight), flt)

freezerGroup_Set(fs, dd, flt) ==
    JoinAndWrite(fs, dd, "freezer",
        IF dd.c.freezeState # "THAWED"
        THEN <<<<"freezer.state", <<dd.c.freezeState>>>>>> ELSE <<>>,
        flt)

\* sys.Set(d) for sys the element of `subsystems` named subsystem
Set(subsystem, fs, dd, flt) ==
    CASE subsystem = "devices" -> devicesGroup_Set(fs, dd, flt)
      [] subsystem = "memory" -> memoryGroup_Set(fs, dd, flt)
      [] subsystem = "cpu" -> cpuGroup_Set(fs, dd, flt)
      [] subsystem = "cpuset" -> cpusetGroup_Set(fs, dd, flt)
      [] subsystem = "cpuacct" -> cpuacctGroup_Set(fs, dd, flt)
      [] subsystem = "blkio" -> blkioGroup_Set(fs, dd, flt)
      [] subsystem = "perf_event" -> perfEventGroup_Set(fs, dd, flt)
      [] subsystem = "freezer" -> freezerGroup_Set(fs, dd, flt)

\* faulty variant: the cpu group's Set clears the pid of the data
dataAfterSet_CpuClearsPid(subsystem, dd) ==
    IF subsystem = "cpu" THEN [dd EXCEPT !.pid = 0] ELSE dd

\* the data *d after sys.Set(d): Set gets a pointer to the data and could
\* assign to its fields; no Set, join or path has such an assignment
dataAfterSet(subsystem, dd) == dd

\* the configuration files of a subsystem
ConfigFiles(subsystem) ==
    CASE subsystem = "devices" -> {"devices.deny", "devices.allow"}
      [] subsystem = "memory" -> {"memory.limit_in_bytes", "memory.memsw.limit_in_bytes"}
      [] subsystem = "cpu" -> {"cpu.shares"}
      [] subsystem = "cpuset" -> {"cpuset.cpus", "cpuset.mems"}
      [] subsystem = "blkio" -> {"blkio.weight"}
      [] subsystem = "freezer" -> {"freezer.state"}
      [] OTHER -> {}

\* the faults the environment may inject into the Set of a subsystem: none,
\* a failing directory creation, or a failing write of the named file
Faults(subsystem) ==
    {"none", "mkdir", "mkdirExist", "cgroup.procs"} \cup ConfigFiles(subsystem)

-----------------------------------------------------------------------------
(* Apply and Cleanup *)

\* the data of a call that has not built one
NoData == [root |-> <<>>, cgroup |-> <<>>, c |-> <<>>, pid |-> 0]

FS(c) == [dirs |-> dirs, files |-> files, log |-> log[c]]

\* faulty variant: the parent is dropped
CgroupName_NameOnly(cg) == <<cg.Name>>

\* the cgroup name Apply computes: c.Name, below c.Parent when that is set
CgroupName(cg) == IF cg.Parent # "" THEN <<cg.Parent, cg.Name>> ELSE <<cg.Name>>

\* faulty variant: the root is not checked on disk
findCgroupRoot_NoStat(mp, ds) ==
    IF mp.err # Nil
    THEN [root |-> <<>>, err |-> mp.err]
    ELSE [root |-> Dir(mp.path), err |-> Nil]

\* Apply's first lines: the parent of the cpu mountpoint mp, which must be one
\* of the directories ds on disk
findCgroupRoot(mp, ds) ==
    IF mp.err # Nil
    THEN [root |-> <<>>, err |-> mp.err]
    ELSE IF Dir(mp.path) \notin ds
    THEN [root |-> <<>>, err |-> ErrNoCgroupFs]
    ELSE [root |-> Dir(mp.path), err |-> Nil]

\* Apply up to its loop, called with a spec of cgs and a pid of pids on a host
\* whose cpu mountpoint is one of mps: find the root, build the data
ApplyBeginOf(c, cgs, pids, mps) ==
    /\ pc[c] = "idle"
    /\ \E cg \in cgs, pid \in pids, mp \in mps :
         LET r == findCgroupRoot(mp, dirs) IN
         /\ log' = [log EXCEPT ![c] = <<>>]
         /\ dirs0' = [dirs0 EXCEPT ![c] = dirs]
         /\ IF r.err # Nil
            THEN /\ pc' = [pc EXCEPT ![c] = "failed"]
                 /\ err' = [err EXCEPT ![c] = r.err]
                 /\ UNCHANGED <<d, idx>>
            ELSE /\ pc' = [pc EXCEPT ![c] = "apply"]
                 /\ d' = [d EXCEPT ![c] = [root |-> r.root, cgroup |-> CgroupName(cg),
                                           c |-> cg, pid |-> pid]]
                 /\ idx' = [idx EXCEPT ![c] = 1]
                 /\ UNCHANGED err
    /\ UNCHANGED <<dirs, files, mounted, handle, clog, cleanups, cleanupRet>>
    /\ UNCHANGED engVars

ApplyBegin(c) == ApplyBeginOf(c, Cgroups, Pids, CpuMountpoints)

\* one iteration of Apply's loop, and Apply's return when it is the last one
\* or the subsystem's Set fails; the environment injects a fault of `allowed`
ApplySetOf(c, allowed) ==
    /\ pc[c] = "apply"
    /\ \E flt \in Faults(subsystems[idx[c]]) \cap allowed :
         LET r == Set(subsystems[idx[c]], FS(c), d[c], flt) IN
         /\ dirs' = r.fs.dirs
         /\ files' = r.fs.files
         /\ log' = [log EXCEPT ![c] = r.fs.log]
         /\ IF r.err # Nil
            THEN /\ pc' = [pc EXCEPT ![c] = "failed"]
                 /\ err' = [err EXCEPT ![c] = r.err]
                 /\ UNCHANGED <<idx, handle>>
            ELSE IF idx[c] < Len(subsystems)
            THEN /\ idx' = [idx EXCEPT ![c] = @ + 1]
                 /\ UNCHANGED <<pc, err, handle>>
            ELSE /\ pc' = [pc EXCEPT ![c] = "applied"]
                 /\ handle' = [handle EXCEPT ![c] = "d"]
                 /\ UNCHANGED <<idx, err>>
    /\ d' = [d EXCEPT ![c] = dataAfterSet(subsystems[idx[c]], d[c])]
    /\ UNCHANGED <<mounted, clog, dirs0, cleanups, cleanupRet>>
    /\ UNCHANGED engVars

AllFaults == UNION {Faults(s) : s \in Subsystems}
ApplySet(c) == ApplySetOf(c, AllFaults)

\* Cleanup's loop from position i of its list; F: the subsystems whose
\* removal the environment makes fail
RECURSIVE CleanupFrom(_, _, _, _)
CleanupFrom(fs, raw, i, F) ==
    IF i > Len(cleanupOrder)
    THEN [fs |-> fs, err |-> Nil]
    ELSE LET p == path(raw, cleanupOrder[i]) IN
         IF p.err # Nil
         THEN CleanupFrom(Lookup(fs, cleanupOrder[i], FALSE), raw, i + 1, F)
         ELSE CleanupFrom(RemoveAll(Lookup(fs, cleanupOrder[i], TRUE), p.path,
                                    cleanupOrder[i] \in F).fs,
                          raw, i + 1, F)

\* faulty variant: the loop returns at the first removal that fails
RECURSIVE CleanupFrom_StopAtError(_, _, _, _)
CleanupFrom_StopAtError(fs, raw, i, F) ==
    IF i > Len(cleanupOrder)
    THEN [fs |-> fs, err |-> Nil]
    ELSE LET p == path(raw, cleanupOrder[i]) IN
         IF p.err # Nil
         THEN CleanupFrom_StopAtError(Lookup(fs, cleanupOrder[i], FALSE), raw, i + 1, F)
         ELSE LET r == RemoveAll(Lookup(fs, cleanupOrder[i], TRUE), p.path,
                                 cleanupOrder[i] \in F) IN
              IF r.err # Nil THEN [fs |-> r.fs, err |-> r.err]
              ELSE CleanupFrom_StopAtError(r.fs, raw, i + 1, F)
data_Cleanup_StopAtError(fs, raw, F) == CleanupFrom_StopAtError(fs, raw, 1, F)

\* faulty variant: the loop starts at the second element of the list
data_Cleanup_SkipFirst(fs, raw, F) == CleanupFrom(fs, raw, 2, F)

data_Cleanup(fs, raw, F) == CleanupFrom(fs, raw, 1, F)

\* a Cleanup of the call's handle, at most maxCleanups of them, in which at
\* most maxRmFaults removals fail
CleanupOf(c, maxCleanups, maxRmFaults) ==
    /\ pc[c] = "applied"
    /\ handle[c] = "d"
    /\ cleanups[c] < maxCleanups
    /\ \E F \in {G \in SUBSET {s \in RmVaries : path(d[c], s).path \in dirs} :
                    Cardinality(G) <= maxRmFaults} :
         LET r == data_Cleanup([FS(c) EXCEPT !.log = <<>>], d[c], F) IN
         /\ dirs' = r.fs.dirs
         /\ files' = r.fs.files
         /\ clog' = [clog EXCEPT ![c] = r.fs.log]
         /\ cleanupRet' = [cleanupRet EXCEPT ![c] = r.err]
    /\ cleanups' = [cleanups EXCEPT ![c] = @ + 1]
    /\ UNCHANGED <<mounted, pc, d, idx, handle, err, log, dirs0>>
    /\ UNCHANGED engVars

Cleanup(c) == CleanupOf(c, MaxCleanups, MaxRmFaults)

\* some call is running or holds a handle it may still clean up
Active ==
    \E c \in Calls : pc[c] = "apply" \/ (pc[c] = "applied" /\ cleanups[c] < MaxCleanups)

\* the host's mount table changes
Mount ==
    /\ Active
    /\ \E s \in Subsystems \ mounted : mounted' = mounted \cup {s}
    /\ UNCHANGED <<dirs, files, pc, d, idx, handle, err, log, clog, dirs0, cleanups,
                   cleanupRet>>
    /\ UNCHANGED engVars

Unmount ==
    /\ Active
    /\ \E s \in mounted : /\ (mounted \ {s}) \in MountTables
                          /\ mounted' = mounted \ {s}
    /\ UNCHANGED <<dirs, files, pc, d, idx, handle, err, log, clog, dirs0, cleanups,
                   cleanupRet>>
    /\ UNCHANGED engVars

-----------------------------------------------------------------------------
(* package engine: the handler registries *)

HandlerNames == {"create", "start"}
Handlers == {"h1", "h2"}
EngineIds == {1, 2}
\* the root directory given to New
EngineRoot == <<"var", "docker">>
\* runtime.GOARCH of the build
Archs == {"amd64", "arm"}

\* a map[string]Handler is a function on the names; Absent marks a name
\* that has no entry
Absent == "absent"
\* make(map[string]Handler)
NoHandlers == [n \in HandlerNames |-> Absent]
\* _, exists := m[name]
Exists(m, name) == m[name] # Absent

ErrOverwriteGlobal(name) ==
    [kind |-> "Can't overwrite global handler for command", op |-> "",
     path |-> <<name>>, errno |-> ""]
ErrOverwrite(name) ==
    [kind |-> "Can't overwrite handler for command", op |-> "",
     path |-> <<name>>, errno |-> ""]
ErrArch(arch) ==
    [kind |-> "The docker runtime currently only supports amd64", op |-> "",
     path |-> <<arch>>, errno |-> ""]

\* faulty variant: a handler that is there is replaced
Register_Overwrite(gh, name, handler) ==
    [handlers |-> [gh EXCEPT ![name] = handler], err |-> Nil]

\* Register(name, handler) on the global registry gh
Register(gh, name, handler) ==
    IF Exists(gh, name)
    THEN [handlers |-> gh, err |-> ErrOverwriteGlobal(name)]
    ELSE [handlers |-> [gh EXCEPT ![name] = handler], err |-> Nil]

\* no engine: New has not returned one
NoEngine == [made |-> FALSE, root |-> <<>>, handlers |-> NoHandlers]

\* faulty variant: a handler that is there is replaced
Engine_Register_Overwrite(eng, name, handler) ==
    [eng |-> [eng EXCEPT !.handlers[name] = handler], err |-> Nil]

\* eng.Register(name, handler)
Engine_Register(eng, name, handler) ==
    IF Exists(eng.handlers, name)
    THEN [eng |-> eng, err |-> ErrOverwrite(name)]
    ELSE [eng |-> [eng EXCEPT !.handlers[name] = handler], err |-> Nil]

\* faulty variant: the global handlers are not copied
New_NoCopy(gh, root, arch, fs, flt) ==
    IF arch # "amd64"
    THEN [eng |-> NoEngine, fs |-> fs, err |-> ErrArch(arch)]
    ELSE LET m == MkdirAll(fs, root, flt) IN
         IF m.err # Nil /\ ~IsExist(m.err)
         THEN [eng |-> NoEngine, fs |-> m.fs, err |-> m.err]
         ELSE [eng |-> [made |-> TRUE, root |-> root, handlers |-> NoHandlers],
               fs |-> m.fs, err |-> Nil]

\* New(root) in a build for arch, with the global registry gh
New(gh, root, arch, fs, flt) ==
    IF arch # "amd64"
    THEN [eng |-> NoEngine, fs |-> fs, err |-> ErrArch(arch)]
    ELSE LET m == MkdirAll(fs, root, flt) IN
         IF m.err # Nil /\ ~IsExist(m.err)
         THEN [eng |-> NoEngine, fs |-> m.fs, err |-> m.err]
         ELSE [eng |-> [made |-> TRUE, root |-> root,
                        handlers |-> [k \in HandlerNames |-> gh[k]]],
               fs |-> m.fs, err |-> Nil]

\* eng.Job(name): the job's name and handler (nil when the name has none)
Engine_Job(eng, name) ==
    [Name |-> name,
     handler |-> IF Exists(eng.handlers, name) THEN eng.handlers[name] ELSE "nil"]

\* a call of package engine and what it returned; eng 0 is the package itself
Ret(op, e, name, handler, error) ==
    [op |-> op, eng |-> e, name |-> name, handler |-> handler, err |-> error]
NoRet == Ret("", 0, "", "", Nil)

\* the handler of the first Register call for the name on registry reg
NoteFirst(reg, name, handler) ==
    [firstReg EXCEPT ![reg][name] = IF @ = Absent THEN handler ELSE @]

RegisterCall ==
    /\ \E name \in HandlerNames, handler \in Handlers :
         LET r == Register(globalHandlers, name, handler) IN
         /\ globalHandlers' = r.handlers
         /\ ret' = Ret("Register", 0, name, handler, r.err)
         /\ firstReg' = NoteFirst(0, name, handler)
    /\ UNCHANGED <<engines, dirs>>
    /\ UNCHANGED cgVars

EngineRegisterCall(e) ==
    /\ engines[e].made
    /\ \E name \in HandlerNames, handler \in Handlers :
         LET r == Engine_Register(engines[e], name, handler) IN
         /\ engines' = [engines EXCEPT ![e] = r.eng]
         /\ ret' = Ret("Engine.Register", e, name, handler, r.err)
         /\ firstReg' = NoteFirst(e, name, handler)
    /\ UNCHANGED <<globalHandlers, dirs>>
    /\ UNCHANGED cgVars

NewCall(e) ==
    /\ ~engines[e].made
    /\ \E arch \in Archs, flt \in {"none", "mkdir", "mkdirExist"} :
         LET r == New(globalHandlers, EngineRoot, arch,
                      [dirs |-> dirs, files |-> files, log |-> <<>>], flt) IN
         /\ engines' = [engines EXCEPT ![e] = r.eng]
         /\ dirs' = r.fs.dirs
         /\ ret' = Ret("New", e, "", "", r.err)
    /\ UNCHANGED <<globalHandlers, firstReg>>
    /\ UNCHANGED cgVars

JobCall(e) ==
    /\ engines[e].made
    /\ \E name \in HandlerNames :
         ret' = Ret("Job", e, name, Engine_Job(engines[e], name).handler, Nil)
    /\ UNCHANGED <<globalHandlers, engines, firstReg, dirs>>
    /\ UNCHANGED cgVars

Init ==
    /\ dirs = Skeleton
    /\ files = {}
    /\ mounted \in MountTables
    /\ pc = [c \in Calls |-> "idle"]
    /\ d = [c \in Calls |-> NoData]
    /\ idx = [c \in Calls |-> 0]
    /\ handle = [c \in Calls |-> "nil"]
    /\ err = [c \in Calls |-> Nil]
    /\ log = [c \in Calls |-> <<>>]
    /\ clog = [c \in Calls |-> <<>>]
    /\ dirs0 = [c \in Calls |-> {}]
    /\ cleanups = [c \in Calls |-> 0]
    /\ cleanupRet = [c \in Calls |-> Nil]
    /\ globalHandlers = NoHandlers
    /\ engines = [e \in EngineIds |-> NoEngine]
    /\ ret = NoRet
    /\ firstReg = [reg \in {0} \cup EngineIds |-> NoHandlers]

\* one container: a single Apply, then Cleanup calls on its handle
Next ==
    \/ ApplyBegin(1)
    \/ ApplySet(1)
    \/ Cleanup(1)
    \/ Mount
    \/ Unmount

Spec == Init /\ [][Next]_vars

-----------------------------------------------------------------------------
(* The engine's registries *)

\* the host of the engine: every hierarchy is mounted
InitEngine == Init /\ mounted = Subsystems

\* calls of package engine, in any order
NextEngine ==
    \/ RegisterCall
    \/ \E e \in EngineIds : EngineRegisterCall(e) \/ NewCall(e) \/ JobCall(e)

SpecEngine == InitEngine /\ [][NextEngine]_vars

-----------------------------------------------------------------------------
(* Two containers *)

\* the specs of the two calls: the first is named c1; the second has another
\* name, below the first's name or below another parent, or the same name
PairCgroups1 == {CgroupOf("c1", "", 512, NoLimits)}
PairCgroups2 ==
    {CgroupOf("c2", "c1", 0, NoLimits), CgroupOf("c2", "p", 0, NoLimits),
     CgroupOf("c1", "", 0, NoLimits)}
PairCgroups(c) == IF c = 1 THEN PairCgroups1 ELSE PairCgroups2
PairPids(c) == IF c = 1 THEN {7} ELSE {4242}
\* no fault is injected while two calls run
PairFaults == {"none"}
\* the host of the two calls: the hierarchies are mounted below CgroupRoot
PairMountpoints == {mp \in CpuMountpoints : mp.err = Nil /\ Dir(mp.path) = CgroupRoot}

\* the mandatory subsystems are mounted, perf_event may not be
InitPair == Init /\ (Subsystems \ mounted) \subseteq {"perf_event"}

\* two containers: the calls' Apply loops and Cleanups interleave step by step
NextPair ==
    \/ \E c \in Calls :
           \/ ApplyBeginOf(c, PairCgroups(c), PairPids(c), PairMountpoints)
           \/ ApplySetOf(c, PairFaults)
           \/ CleanupOf(c, 1, 0)
    \/ Mount

SpecPair == InitPair /\ [][NextPair]_vars

-----------------------------------------------------------------------------
(* Vocabulary of the properties *)

Entries(l) == {l[i] : i \in 1..Len(l)}

\* the directory of a subsystem for the call's effective hierarchy path
SubDir(c, s) == d[c].root \o <<s>> \o InitDirOf(s) \o d[c].cgroup

\* Apply built its data and then returned an error from a subsystem's Set
SetFailed(c) == pc[c] = "failed" /\ idx[c] >= 1
\* Apply returned a handle and Cleanup has not been called on it yet
JustApplied(c) == pc[c] = "applied" /\ cleanups[c] = 0

HasFile(dir, file) == \E f \in files : f.dir = dir /\ f.file = file
FileIs(dir, file, data) == [dir |-> dir, file |-> file, data |-> data] \in files

\* no directory of the call's hierarchy path exists in any subsystem
NoDirs(c) == \A s \in Subsystems : SubDir(c, s) \notin dirs

\* the configuration-file write that made Apply fail, if that is what did
LimitWriteFailed(c) ==
    /\ SetFailed(c)
    /\ log[c] # <<>>
    /\ LET e == log[c][Len(log[c])] IN
       e.op = "write" /\ ~e.ok /\ e.file # "cgroup.procs"

-----------------------------------------------------------------------------
(* C1: whenever Apply returns an error because a subsystem's Set failed, no
   directory exists afterwards for any subsystem under the effective
   hierarchy path.  The code returns the error without removing anything. *)
C1_RollbackOnSetFailure == SetFailed(1) => NoDirs(1)

(* C2: when a subsystem has joined and its configuration-file write then
   fails, Apply returns an error and afterwards no cgroup.procs file exists
   in any subsystem's directory for the hierarchy path.  The code leaves the
   cgroup.procs of the failing subsystem and of those before it. *)
C2_LimitWriteRollsBackJoin ==
    LimitWriteFailed(1) =>
        /\ err[1] # Nil
        /\ \A s \in Subsystems : ~HasFile(SubDir(1, s), "cgroup.procs")

-----------------------------------------------------------------------------
(* Vocabulary of C3..C6 *)

\* Apply ran its loop and returned
ApplyReturned(c) == pc[c] \in {"applied", "failed"} /\ idx[c] >= 1

PerfLookupFailed == Entry("lookup", <<"perf_event">>, "", <<>>, FALSE)

\* perf_event was found not mounted and every other step of Apply succeeded
OnlyPerfLookupFailed(c) ==
    /\ PerfLookupFailed \in Entries(log[c])
    /\ \A e \in Entries(log[c]) : ~e.ok => e = PerfLookupFailed

\* some step of Apply failed other than the lookup of perf_event
OtherFailure(c) == \E e \in Entries(log[c]) : ~e.ok /\ e # PerfLookupFailed

\* the pid was written to the subsystem's cgroup.procs after position i of the log
JoinedAfter(c, s, i) ==
    \E j \in (i + 1)..Len(log[c]) :
        log[c][j] = Entry("write", SubDir(c, s), "cgroup.procs", Itoa(d[c].pid), TRUE)

DigitVal(ch) == CHOOSE v \in 0..9 : DigitChar[v + 1] = ch
RECURSIVE DecValue(_)
DecValue(str) ==
    IF str = <<>> THEN 0
    ELSE DecValue(SubSeq(str, 1, Len(str) - 1)) * 10 + DigitVal(str[Len(str)])

\* str is the decimal string of the natural number n
IsDecimalOf(str, n) ==
    /\ Len(str) >= 1
    /\ \A i \in 1..Len(str) : str[i] \in Entries(DigitChar)
    /\ (Len(str) > 1 => str[1] # "0")
    /\ DecValue(str) = n

(* C3: if perf_event is the only subsystem not mounted and every other step
   succeeds, Apply returns a handle and no error, creates no perf_event
   directory and joins no pid to it, and still applies freezer, the
   subsystem after perf_event. *)
C3_PerfEventOptional ==
    (ApplyReturned(1) /\ OnlyPerfLookupFailed(1)) =>
        /\ pc[1] = "applied" /\ handle[1] = "d" /\ err[1] = Nil
        /\ \A e \in Entries(log[1]) :
               e.op \in {"mkdir", "write"} => e.path # SubDir(1, "perf_event")
        /\ \E i \in 1..Len(log[1]) :
               log[1][i] = PerfLookupFailed /\ JoinedAfter(1, "freezer", i)
        /\ cleanups[1] = 0 =>
               /\ SubDir(1, "perf_event") \notin dirs
               /\ ~HasFile(SubDir(1, "perf_event"), "cgroup.procs")
               /\ SubDir(1, "freezer") \in dirs
               /\ FileIs(SubDir(1, "freezer"), "cgroup.procs", Itoa(d[1].pid))
               /\ d[1].c.freezeState # "THAWED" =>
                      FileIs(SubDir(1, "freezer"), "freezer.state", <<d[1].c.freezeState>>)

C3_Witness ==
    /\ JustApplied(1) /\ OnlyPerfLookupFailed(1)
    /\ SubDir(1, "freezer") \in dirs
    /\ SubDir(1, "perf_event") \notin dirs

(* C4: the only error Apply swallows is the not-found of perf_event's
   lookup: when any other step fails (a lookup of another subsystem, a
   directory creation or pid write in any subsystem, perf_event included, a
   configuration-file write), Apply returns a non-nil error and no handle. *)
C4_OnlyPerfNotFoundSwallowed ==
    (ApplyReturned(1) /\ OtherFailure(1)) =>
        pc[1] = "failed" /\ err[1] # Nil /\ handle[1] = "nil"

C4_Witness ==
    /\ pc[1] = "failed" /\ err[1] # Nil /\ handle[1] = "nil"
    /\ \E e \in Entries(log[1]) :
           ~e.ok /\ e.op \in {"mkdir", "write"} /\ e.path = SubDir(1, "perf_event")

(* C5: for a spec with CpuShares = N > 0, after Apply returns successfully
   the file cpu.shares of the cpu subsystem's directory for the effective
   hierarchy path holds exactly the decimal string of N. *)
C5_CpuSharesWritten ==
    (JustApplied(1) /\ d[1].c.CpuShares > 0) =>
        \E f \in files :
            /\ f.dir = SubDir(1, "cpu") /\ f.file = "cpu.shares"
            /\ IsDecimalOf(f.data, d[1].c.CpuShares)

C5_Witness ==
    /\ JustApplied(1) /\ d[1].c.CpuShares = 512
    /\ FileIs(SubDir(1, "cpu"), "cpu.shares", <<"5", "1", "2">>)

(* C6: the cpu subsystem is joined for every spec, CpuShares = 0 included:
   after a successful Apply the cpu directory exists and its cgroup.procs
   holds the pid; with CpuShares = 0 Apply writes no cpu.shares. *)
C6_CpuAlwaysJoined ==
    /\ JustApplied(1) =>
           /\ SubDir(1, "cpu") \in dirs
           /\ \E f \in files :
                  /\ f.dir = SubDir(1, "cpu") /\ f.file = "cgroup.procs"
                  /\ IsDecimalOf(f.data, d[1].pid)
           /\ d[1].c.CpuShares = 0 => ~HasFile(SubDir(1, "cpu"), "cpu.shares")
    /\ (pc[1] = "applied" /\ d[1].c.CpuShares = 0) =>
           \A e \in Entries(log[1]) : e.file # "cpu.shares"

C6_Witness ==
    /\ JustApplied(1) /\ d[1].c.CpuShares = 0
    /\ HasFile(SubDir(1, "cpu"), "cgroup.procs")
    /\ ~HasFile(SubDir(1, "cpu"), "cpu.shares")

-----------------------------------------------------------------------------
(* Vocabulary of C7..C10 *)

\* the step is a Cleanup of the call's handle
CleanupStep(c) == cleanups'[c] # cleanups[c]

\* every subsystem that has a directory for the call's path is mounted
Resolvable(c) == \A s \in Subsystems : SubDir(c, s) \in dirs => s \in mounted

\* no removal of the last Cleanup failed
RemovalsOk(c) == \A e \in Entries(clog[c]) : e.op = "remove" => e.ok

\* the subsystems Apply found mounted
FoundByApply(c) == {s \in Subsystems : Entry("lookup", <<s>>, "", <<>>, TRUE) \in Entries(log[c])}
\* no lookup of the last Cleanup differs from the one Apply made
MountStable(c) ==
    \A e \in Entries(clog[c]) :
        e.op = "lookup" => (e.ok <=> e.path[1] \in FoundByApply(c))

(* C7 as claimed: Cleanup called twice on a handle returns nil both times,
   after each call no directory of the handle's hierarchy path exists in any
   subsystem, and the second call changes no filesystem state. *)
C7_CleanupIdempotent ==
    [][CleanupStep(1) =>
          /\ cleanupRet'[1] = Nil
          /\ NoDirs(1)'
          /\ cleanups[1] >= 1 => (dirs' = dirs /\ files' = files)]_vars

(* C7 as amended: every Cleanup returns nil; when every subsystem that has a
   directory of the path is mounted and no removal fails, no directory of
   the path exists in any subsystem after the call; and a further Cleanup
   that finds no such directory changes no filesystem state. *)
C7_CleanupIdempotentWhenRemovable ==
    [][CleanupStep(1) =>
          /\ cleanupRet'[1] = Nil
          /\ (Resolvable(1) /\ RemovalsOk(1)') => NoDirs(1)'
          /\ (cleanups[1] >= 1 /\ NoDirs(1)) => (dirs' = dirs /\ files' = files)]_vars

C7_Witness ==
    /\ cleanups[1] = 2 /\ cleanupRet[1] = Nil
    /\ RemovalsOk(1) /\ MountStable(1) /\ NoDirs(1)

(* C8: Cleanup is best-effort: whatever removals fail, Cleanup looks up
   every subsystem and attempts the removal of the directory of each one it
   finds mounted before it returns. *)
C8_CleanupBestEffort ==
    cleanups[1] >= 1 =>
        \A s \in Subsystems :
            \E i \in 1..Len(clog[1]) :
                /\ clog[1][i].op = "lookup" /\ clog[1][i].path = <<s>>
                /\ clog[1][i].ok =>
                       /\ i < Len(clog[1])
                       /\ clog[1][i + 1].op = "remove"
                       /\ clog[1][i + 1].path = SubDir(1, s)

C8_Witness ==
    /\ cleanups[1] >= 1
    /\ \E i, j \in 1..Len(clog[1]) :
           /\ i < j
           /\ clog[1][i].op = "remove" /\ ~clog[1][i].ok
           /\ clog[1][j].op = "remove" /\ clog[1][j].ok
    /\ Cardinality({s \in Subsystems : SubDir(1, s) \in dirs}) = 1

(* C9: Cleanup returns nil if and only if every removal succeeded; when a
   removal fails it returns a non-nil error.  The code drops the result of
   every os.RemoveAll and returns nil. *)
C9_CleanupSurfacesFailures ==
    cleanups[1] >= 1 => (cleanupRet[1] = Nil <=> RemovalsOk(1))

(* C10 as claimed: starting with no directory of the hierarchy, a successful
   Apply followed by Cleanup, the mount table unchanged, leaves exactly the
   directories that existed before Apply, an intermediate parent directory
   created by Apply included in what is removed. *)
C10_CleanupRestoresDirs ==
    (cleanups[1] >= 1 /\ MountStable(1) /\ \A s \in Subsystems : SubDir(1, s) \notin dirs0[1])
        => dirs = dirs0[1]

(* C10 as amended: under the same conditions and when no removal fails,
   Cleanup removes the directory of the effective hierarchy path in every
   subsystem Apply joined, with the files in it, and nothing else: the
   parent directories Apply created stay, so the directories are those
   before Apply plus the ancestors of each removed directory (exactly those
   before Apply when the spec has no parent). *)
C10_CleanupRemovesPathDirs ==
    (cleanups[1] >= 1 /\ MountStable(1) /\ RemovalsOk(1)
        /\ \A s \in Subsystems : SubDir(1, s) \notin dirs0[1])
        => /\ NoDirs(1)
           /\ \A f \in files : \A s \in Subsystems : ~IsPrefix(SubDir(1, s), f.dir)
           /\ dirs = dirs0[1] \cup UNION {Prefixes(Dir(SubDir(1, s))) : s \in FoundByApply(1)}
           /\ d[1].c.Parent = "" => dirs = dirs0[1]

C10_Witness ==
    /\ cleanups[1] >= 1 /\ MountStable(1) /\ RemovalsOk(1)
    /\ d[1].c.Parent = "p"
    /\ NoDirs(1)
    /\ dirs # dirs0[1]

-----------------------------------------------------------------------------
(* Vocabulary of C12..C15 *)

\* Apply returned before its loop: the root was not found
RootFailed(c) == pc[c] = "failed" /\ idx[c] = 0

(* C12: when the cpu mountpoint cannot be found or its parent directory is
   not on disk, Apply returns an error and no handle, invokes no subsystem
   and creates or writes nothing; so whenever Apply did invoke a subsystem,
   the root it uses is the parent of a mountpoint that was found, and that
   root was on disk when Apply began. *)
C12_MountRootFailureFatal ==
    /\ RootFailed(1) =>
           /\ (err[1] = ErrNotFound \/ err[1] = ErrNoCgroupFs)
           /\ handle[1] = "nil"
           /\ log[1] = <<>>
           /\ dirs = dirs0[1] /\ files = {}
    /\ (pc[1] # "idle" /\ ~RootFailed(1)) =>
           /\ \E mp \in CpuMountpoints : mp.err = Nil /\ d[1].root = Dir(mp.path)
           /\ d[1].root \in dirs0[1]
           /\ log[1] # <<>> => \A e \in Entries(log[1]) :
                  e.op \in {"mkdir", "write"} => IsPrefix(d[1].root, e.path)

C12_Witness == RootFailed(1) /\ err[1] = ErrNoCgroupFs /\ dirs = Skeleton

\* the lookups of the init cgroup directory that Apply made, in order
Lookups(c) == SelectSeq(log[c], LAMBDA e : e.op = "lookup")

\* the order of application as claimed
ClaimedOrder ==
    <<"devices", "memory", "cpu", "cpuset", "cpuacct", "blkio", "perf_event", "freezer">>

(* C13: Apply invokes the subsystems once each in the order devices, memory,
   cpu, cpuset, cpuacct, blkio, perf_event, freezer; every filesystem call
   is made for the subsystem invoked last; and apart from the tolerated
   lookup of perf_event, once a call of a subsystem fails Apply fails and
   invokes no later subsystem. *)
C13_FixedOrder ==
    LET L == Lookups(1) IN
    /\ Len(L) <= Len(ClaimedOrder)
    /\ \A i \in 1..Len(L) : L[i].path = <<ClaimedOrder[i]>>
    /\ pc[1] = "applied" => Len(L) = Len(ClaimedOrder)
    /\ pc[1] = "apply" => Len(L) = idx[1] - 1
    /\ \A i \in 1..Len(log[1]) :
           /\ log[1][i].op # "lookup" =>
                  \E j \in 1..(i - 1) :
                      /\ log[1][j].op = "lookup"
                      /\ \A k \in (j + 1)..i : log[1][k].op # "lookup"
                      /\ log[1][i].path = SubDir(1, log[1][j].path[1])
           /\ (~log[1][i].ok /\ log[1][i] # PerfLookupFailed) =>
                  /\ pc[1] = "failed"
                  /\ \A k \in (i + 1)..Len(log[1]) : log[1][k].op # "lookup"

C13_Witness ==
    /\ pc[1] = "failed" /\ Len(Lookups(1)) = 3
    /\ log[1][Len(log[1])].file = "cpu.shares"
    /\ SubDir(1, "cpu") \in dirs /\ SubDir(1, "cpuset") \notin dirs

\* the pid was written to cgroup.procs of dir before position i of Apply's log
JoinedBefore(c, dir, i) ==
    \E j \in 1..(i - 1) :
        log[c][j] = Entry("write", dir, "cgroup.procs", Itoa(d[c].pid), TRUE)

(* C14: in every subsystem the pid is written to cgroup.procs of the
   subsystem's directory before any configuration file of that directory is
   written (for cpu: cgroup.procs before cpu.shares), and when the join of a
   subsystem fails (its lookup, its directory creation or its pid write) no
   write of a configuration file is attempted for it. *)
C14_JoinBeforeConfig ==
    /\ \A i \in 1..Len(log[1]) :
           (log[1][i].op = "write" /\ log[1][i].file # "cgroup.procs") =>
               JoinedBefore(1, log[1][i].path, i)
    /\ \A s \in Subsystems :
           (\/ Entry("lookup", <<s>>, "", <<>>, FALSE) \in Entries(log[1])
            \/ Entry("write", SubDir(1, s), "cgroup.procs", Itoa(d[1].pid), FALSE)
                   \in Entries(log[1])
            \/ /\ Entry("mkdir", SubDir(1, s), "", <<>>, FALSE) \in Entries(log[1])
               /\ Entry("write", SubDir(1, s), "cgroup.procs", Itoa(d[1].pid), TRUE)
                      \notin Entries(log[1]))
           => \A e \in Entries(log[1]) :
                  (e.op = "write" /\ e.path = SubDir(1, s)) => e.file = "cgroup.procs"
    /\ (pc[1] \in {"apply", "applied", "failed"} /\ cleanups[1] = 0) =>
           \A f \in files : HasFile(f.dir, "cgroup.procs")

C14_Witness ==
    /\ JustApplied(1) /\ d[1].c.CpuShares = 512
    /\ \E i, j \in 1..Len(log[1]) :
           /\ i < j
           /\ log[1][i] = Entry("write", SubDir(1, "cpu"), "cgroup.procs", Itoa(d[1].pid), TRUE)
           /\ log[1][j] = Entry("write", SubDir(1, "cpu"), "cpu.shares", <<"5", "1", "2">>, TRUE)

\* the effective hierarchy path of the call's spec
EffectivePath(c) ==
    IF d[c].c.Parent = "" THEN <<d[c].c.Name>> ELSE <<d[c].c.Parent, d[c].c.Name>>
\* mountRoot/subsystemName/subsystemInitPath/effectivePath
ClaimedDir(c, root, s) == root \o <<s>> \o InitDirOf(s) \o EffectivePath(c)
\* the filesystem calls that create, write or remove
Touches(l) == {e \in Entries(l) : e.op \in {"mkdir", "write", "remove"}}

(* C15: there is one mount root, the parent of the cpu mountpoint, such that
   every directory Apply creates or writes in and every directory a Cleanup
   of its handle removes is root/subsystem/initPath/effectivePath for a
   subsystem of the list, with effectivePath = name when the parent is empty
   and parent/name otherwise; the data of the call holds that root and that
   path. *)
C15_PathInvariant ==
    (pc[1] # "idle" /\ ~RootFailed(1)) =>
        \E mp \in CpuMountpoints :
            /\ mp.err = Nil
            /\ d[1].root = Dir(mp.path)
            /\ d[1].cgroup = EffectivePath(1)
            /\ \A e \in Touches(log[1]) \cup Touches(clog[1]) :
                   \E s \in Subsystems : e.path = ClaimedDir(1, Dir(mp.path), s)
            /\ \A q \in (dirs \ dirs0[1]) \cup (dirs0[1] \ dirs) :
                   \E s \in Subsystems : IsPrefix(q, ClaimedDir(1, Dir(mp.path), s))

C15_Witness ==
    /\ cleanups[1] >= 1 /\ d[1].c.Parent = "p"
    /\ \E e \in Entries(log[1]) :
           e.op = "mkdir" /\ e.ok /\ e.path = <<"cgroup", "memory", "init", "p", "c1">>
    /\ \E e \in Entries(clog[1]) :
           e.op = "remove" /\ e.ok /\ e.path = <<"cgroup", "memory", "init", "p", "c1">>

-----------------------------------------------------------------------------
(* C17: once Apply has built its data, no step changes the data's root,
   cgroup, pid or spec: every subsystem of the loop gets the values Apply
   built (each pid write carries the pid, below the root), and the handle
   Apply returns is that data. *)
C17_ContextReadOnly ==
    [][pc[1] # "idle" =>
          /\ d'[1] = d[1]
          /\ handle'[1] = "d" => pc'[1] = "applied"
          /\ \A e \in Entries(log'[1]) :
                 e.file = "cgroup.procs" =>
                     e.data = Itoa(d[1].pid) /\ IsPrefix(d[1].root \o <<e.path[2]>>, e.path)]_vars

C17_Witness ==
    /\ JustApplied(1) /\ handle[1] = "d"
    /\ d[1].pid = 4242 /\ d[1].c.CpuShares = 512 /\ d[1].cgroup = <<"p", "c1">>
    /\ FileIs(<<"cgroup", "freezer", "p", "c1">>, "cgroup.procs", <<"4", "2", "4", "2">>)

-----------------------------------------------------------------------------
(* Vocabulary of C11, C16, C18: two calls *)

\* Apply built the call's data
Built(c) == pc[c] # "idle" /\ ~RootFailed(c)
\* one of the directories is the other or lies below it
Overlap(p, q) == IsPrefix(p, q) \/ IsPrefix(q, p)
\* what the call's Apply and the last Cleanup of its handle created, wrote or removed
TouchesOf(c) == Touches(log[c]) \cup Touches(clog[c])
\* the directories of the call's effective hierarchy path
DirsOf(c) == {ClaimedDir(c, d[c].root, s) : s \in Subsystems}
\* call c created, wrote or removed at, above or below a directory of call o
Interferes(c, o) == \E e \in TouchesOf(c), q \in DirsOf(o) : Overlap(e.path, q)

(* C11 as claimed: whenever the specs of two calls have different names,
   whatever their parents, neither call creates, writes a pid into or
   removes a directory of the other's effective hierarchy path: the calls
   work on disjoint directory subtrees. *)
C11_DistinctNamesIsolated ==
    \A c, o \in Calls :
        (c # o /\ Built(c) /\ Built(o) /\ d[c].c.Name # d[o].c.Name) => ~Interferes(c, o)

(* C11 as amended: whenever the specs of two calls have different names and
   neither effective hierarchy path (name, or parent/name) is a prefix of the
   other, neither call creates, writes or removes at, above or below a
   directory of the other's path; and after both Applys, with no Cleanup
   yet, each joined subsystem directory of each call holds that call's pid. *)
C11_DisjointPathsIsolated ==
    \A c, o \in Calls :
        (c # o /\ Built(c) /\ Built(o) /\ d[c].c.Name # d[o].c.Name
             /\ ~Overlap(EffectivePath(c), EffectivePath(o)))
        => /\ ~Interferes(c, o)
           /\ (JustApplied(c) /\ JustApplied(o)) =>
                  \A s \in FoundByApply(c) :
                      FileIs(ClaimedDir(c, d[c].root, s), "cgroup.procs", Itoa(d[c].pid))
           /\ (JustApplied(c) /\ pc[o] = "applied") =>
                  \A s \in FoundByApply(c) : ClaimedDir(c, d[c].root, s) \in dirs

C11_Witness ==
    /\ pc[1] = "applied" /\ cleanups[1] = 1 /\ JustApplied(2)
    /\ d[2].c.Name = "c2" /\ d[2].c.Parent = "p"
    /\ DirsOf(1) \cap dirs = {}
    /\ FileIs(<<"cgroup", "cpu", "p", "c2">>, "cgroup.procs", <<"4", "2", "4", "2">>)

\* the step is one iteration of the loop of the call's Apply
ApplyStep(c) == pc[c] = "apply" /\ log'[c] # log[c]
\* the subsystem the call's Apply invokes next
NextSubsystem(c) == subsystems[idx[c]]
\* the subsystem's directory for the call's path is there before the join
\* runs, and the subsystem is mounted
JoinsExisting(c) ==
    /\ NextSubsystem(c) \in mounted
    /\ ClaimedDir(c, d[c].root, NextSubsystem(c)) \in dirs

(* C16: when the subsystem's directory for the hierarchy path exists already
   as join runs (left by an Apply of the same name) and no write fails, the
   directory creation succeeds, the pid is written to cgroup.procs, which
   then holds it, and Apply does not fail in that subsystem; and joining the
   pid a second time returns no error and leaves the directories and files
   as the first join left them. *)
C16_JoinToleratesExisting ==
    [][\A c \in Calls :
          (ApplyStep(c) /\ JoinsExisting(c)) =>
              LET dir == ClaimedDir(c, d[c].root, NextSubsystem(c))
                  n == Len(log[c])
                  j1 == join(FS(c), d[c], NextSubsystem(c), "none")
                  j2 == join(j1.fs, d[c], NextSubsystem(c), "none")
              IN  /\ Len(log'[c]) >= n + 3
                  /\ log'[c][n + 2] = Entry("mkdir", dir, "", <<>>, TRUE)
                  /\ log'[c][n + 3] =
                         Entry("write", dir, "cgroup.procs", Itoa(d[c].pid), TRUE)
                  /\ [dir |-> dir, file |-> "cgroup.procs", data |-> Itoa(d[c].pid)]
                         \in files'
                  /\ dir \in dirs'
                  /\ pc'[c] # "failed"
                  /\ j1.err = Nil /\ j2.err = Nil /\ j2.path = j1.path
                  /\ j2.fs.dirs = j1.fs.dirs /\ j2.fs.files = j1.fs.files]_vars

C16_Witness ==
    /\ JustApplied(1) /\ JustApplied(2)
    /\ d[2].cgroup = d[1].cgroup
    /\ <<"cgroup", "cpu", "c1">> \in dirs0[2]
    /\ FileIs(<<"cgroup", "cpu", "c1">>, "cgroup.procs", <<"4", "2", "4", "2">>)
    /\ \A c \in Calls : \E e \in Entries(log[c]) :
           e.op = "mkdir" /\ e.ok /\ e.path = <<"cgroup", "cpu", "c1">>

\* the subsystems the call's Apply joined: it wrote the pid to their cgroup.procs
JoinedByApply(c) ==
    {s \in Subsystems :
        \E e \in Entries(log[c]) :
            /\ e.op = "write" /\ e.ok /\ e.file = "cgroup.procs"
            /\ e.path = ClaimedDir(c, d[c].root, s)}

(* C18: a Cleanup removes directories only of subsystems that the Apply
   which produced the handle joined: every directory at or below the path's
   directory in a subsystem that Apply skipped is still there after the
   Cleanup, also when that subsystem has been mounted since.  The code keeps
   no list of what it joined: Cleanup looks up all eight subsystems again
   and removes the directory of each one it finds mounted. *)
C18_CleanupRemovesOnlyJoined ==
    [][\A c \in Calls :
          CleanupStep(c) =>
              \A s \in Subsystems \ JoinedByApply(c) :
                  \A q \in dirs :
                      IsPrefix(ClaimedDir(c, d[c].root, s), q) => q \in dirs']_vars

-----------------------------------------------------------------------------
(* Vocabulary of C19, C20: the registries; registry 0 is the global one *)

Registries == {0} \cup EngineIds
Registry(reg) == IF reg = 0 THEN globalHandlers ELSE engines[reg].handlers
\* the registry after the step
RegistryAfter(reg) == IF reg = 0 THEN globalHandlers' ELSE engines'[reg].handlers
\* the step is a call of Register on a registry
RegisterStep == ret'.op = "Register" \/ ret'.op = "Engine.Register"

(* C19 as claimed: in the global registry and in every engine's registry,
   each name for which Register was called maps to the handler given in the
   first Register call for that name on that registry. *)
C19_FirstRegisterWins ==
    \A reg \in Registries, n \in HandlerNames :
        firstReg[reg][n] # Absent => Registry(reg)[n] = firstReg[reg][n]

(* C19 as amended: no call changes the handler of a name that has one, be it
   from a Register call or, in an engine, from the copy New made; the global
   registry maps each name to the handler of the first Register call for it;
   a Register for a name that is present returns an error and leaves the
   registry as it was, and a Register for an absent name returns nil and
   adds that one entry. *)
C19_RegisterNeverOverwrites ==
    [][/\ \A reg \in Registries, n \in HandlerNames :
              Exists(Registry(reg), n) => RegistryAfter(reg)[n] = Registry(reg)[n]
       /\ \A n \in HandlerNames : globalHandlers'[n] = firstReg'[0][n]
       /\ RegisterStep =>
              LET old == Registry(ret'.eng)
                  new == RegistryAfter(ret'.eng)
              IN  IF Exists(old, ret'.name)
                  THEN ret'.err # Nil /\ new = old
                  ELSE /\ ret'.err = Nil
                       /\ new[ret'.name] = ret'.handler
                       /\ \A n \in HandlerNames \ {ret'.name} : new[n] = old[n]]_vars

C19_Witness ==
    /\ ret.op = "Engine.Register" /\ ret.eng = 1 /\ ret.name = "create"
    /\ ret.handler = "h2" /\ ret.err # Nil
    /\ engines[1].handlers["create"] = "h1"
    /\ globalHandlers["start"] = "h2" /\ firstReg[0]["start"] = "h2"

(* C20: New copies the global registry as it is at that moment into the new
   engine and leaves the global registry and the other engines alone (a
   failing New returns no engine); a global Register changes no engine;
   an Engine.Register changes neither the global registry nor another
   engine; and Job binds the handler the engine holds for the name when Job
   is called, nil when it holds none, and changes no registry. *)
C20_EngineSnapshot ==
    [][/\ ret'.op = "New" =>
              /\ IF ret'.err = Nil
                 THEN /\ engines'[ret'.eng].made
                      /\ engines'[ret'.eng].handlers = globalHandlers
                 ELSE ~engines'[ret'.eng].made
              /\ globalHandlers' = globalHandlers
              /\ \A o \in EngineIds \ {ret'.eng} : engines'[o] = engines[o]
       /\ ret'.op = "Register" => engines' = engines
       /\ ret'.op = "Engine.Register" =>
              /\ globalHandlers' = globalHandlers
              /\ \A o \in EngineIds \ {ret'.eng} : engines'[o] = engines[o]
       /\ ret'.op = "Job" =>
              /\ globalHandlers' = globalHandlers /\ engines' = engines
              /\ ret'.handler =
                     IF engines[ret'.eng].handlers[ret'.name] # Absent
                     THEN engines[ret'.eng].handlers[ret'.name] ELSE "nil"]_vars

C20_Witness ==
    /\ engines[1].made /\ engines[2].made
    /\ engines[1].handlers["create"] = "h1" /\ engines[1].handlers["start"] = Absent
    /\ globalHandlers["start"] = "h2" /\ engines[2].handlers["start"] = "h2"
    /\ ret.op = "Job" /\ ret.eng = 1 /\ ret.name = "start" /\ ret.handler = "nil"

====
